---- MODULE Spec2Model ----
(***************************************************************************)
(* streamDraft (apps/web/app/page.tsx, lines 80-138): a client-side        *)
(* decoder of a chunked text event stream.  The response body is a byte    *)
(* sequence delivered in chunks of arbitrary size; the read loop decodes   *)
(* each chunk, appends it to a buffer, splits the buffer on "\n\n" and      *)
(* interprets every complete frame.                                        *)
(*                                                                         *)
(* Bytes and characters are one-element strings.  The ASCII bytes stand    *)
(* for themselves; "C3" "A9" are the two bytes of the UTF-8 encoding of    *)
(* U+00E9, which the decoder turns into the single character "U+00E9".     *)
(***************************************************************************)
EXTENDS Integers, Sequences, FiniteSets, TLC

\* ---------------------------------------------------------------- bounds
MaxPieces == 2
MaxHandleCalls == 2

\* ------------------------------------------------------------- alphabet
LF == "\n"
SP == " "
LeadByte == "C3"
ContByte == "A9"
EAcute == "U+00E9"
Replacement == "U+FFFD"

WhiteSpace == {SP, LF}
Delimiter == <<LF, LF>>
DataPrefix == <<"d", "a", "t", "a", ":">>
QuotaMarker == <<"4", "2", "9">>
QuotaMsg == <<"Azure quota exceeded (TPS = 0).">>
NetworkMsg == <<"Failed to fetch">>
TransportMsg == <<"network error">>

\* ------------------------------------------------------ string helpers
StartsWith(s, p) == Len(s) >= Len(p) /\ SubSeq(s, 1, Len(p)) = p

RECURSIVE TrimStart(_)
TrimStart(s) ==
  IF s # <<>> /\ Head(s) \in WhiteSpace THEN TrimStart(Tail(s)) ELSE s

RECURSIVE TrimEnd(_)
TrimEnd(s) ==
  IF s # <<>> /\ s[Len(s)] \in WhiteSpace
    THEN TrimEnd(SubSeq(s, 1, Len(s) - 1))
    ELSE s

Trim(s) == TrimEnd(TrimStart(s))

Slice(s, n) == SubSeq(s, n + 1, Len(s))

\* index of the first occurrence of "\n\n" in s at or after i, 0 if none
RECURSIVE IndexOfDelimiter(_, _)
IndexOfDelimiter(s, i) ==
  IF i + 1 > Len(s) THEN 0
  ELSE IF SubSeq(s, i, i + 1) = Delimiter THEN i
  ELSE IndexOfDelimiter(s, i + 1)

\* String.prototype.split("\n\n")
RECURSIVE Split(_)
Split(s) ==
  LET i == IndexOfDelimiter(s, 1) IN
    IF i = 0 THEN <<s>>
    ELSE <<SubSeq(s, 1, i - 1)>> \o Split(SubSeq(s, i + 2, Len(s)))

\* TextDecoder.decode(value, {stream: true}) on the bytes kept from the
\* previous call followed by the new chunk: the characters produced and the
\* incomplete trailing bytes kept for the next call
RECURSIVE Decode(_)
Decode(b) ==
  IF b = <<>> THEN [out |-> <<>>, keep |-> <<>>]
  ELSE IF Head(b) = LeadByte THEN
    IF Len(b) = 1 THEN [out |-> <<>>, keep |-> <<LeadByte>>]
    ELSE IF b[2] = ContByte THEN
      LET r == Decode(SubSeq(b, 3, Len(b))) IN
        [out |-> <<EAcute>> \o r.out, keep |-> r.keep]
    ELSE
      LET r == Decode(Tail(b)) IN
        [out |-> <<Replacement>> \o r.out, keep |-> r.keep]
  ELSE IF Head(b) = ContByte THEN
    LET r == Decode(Tail(b)) IN
      [out |-> <<Replacement>> \o r.out, keep |-> r.keep]
  ELSE
    LET r == Decode(Tail(b)) IN
      [out |-> <<Head(b)>> \o r.out, keep |-> r.keep]

\* ------------------------------------------------------ the read loop's
\* ------------------------------------------------------ pure pieces
\* line 112 and the loop header of line 115: the complete frames
FramesOf(buf) ==
  LET ps == Split(buf) IN SubSeq(ps, 1, Len(ps) - 1)

\* parts.pop() is missing: the buffer keeps the frames already split off
RemainderWhole(buf) == buf

\* the unfinished tail is thrown away instead of kept
RemainderDropped(buf) == <<>>

\* line 113: buffer = parts.pop() || ''
Remainder(buf) ==
  LET ps == Split(buf) IN ps[Len(ps)]

\* the payload is not trimmed
PayloadUntrimmed(line) == Slice(line, 5)

\* line 119
Payload(line) == Trim(Slice(line, 5))

\* the prefix test of line 117 is missing
InterpretAnyFrame(part) ==
  LET line == Trim(part) IN
    IF StartsWith(Payload(line), QuotaMarker)
      THEN [kind |-> "quota", arg |-> QuotaMsg]
      ELSE [kind |-> "token", arg |-> Payload(line)]

\* lines 116-125: what one frame is turned into
Interpret(part) ==
  LET line == Trim(part) IN
    IF ~StartsWith(line, DataPrefix) THEN [kind |-> "ignored", arg |-> <<>>]
    ELSE IF StartsWith(Payload(line), QuotaMarker)
      THEN [kind |-> "quota", arg |-> QuotaMsg]
      ELSE [kind |-> "token", arg |-> Payload(line)]

\* only the lower end of the success range is tested
ResOkAnyStatus(s) == s >= 200

\* line 95
ResOk(s) == s >= 200 /\ s <= 299

\* line 96: `HTTP ${res.status}`
HttpMsg(s) == <<"HTTP ", ToString(s)>>

TokenCall(p) == [cb |-> "token", arg |-> p]
ErrorCall(m) == [cb |-> "error", arg |-> m]

\* the calls made for a list of frames visited in one pass of the for loop
RECURSIVE CallsFor(_)
CallsFor(ps) ==
  IF ps = <<>> THEN <<>>
  ELSE LET ev == Interpret(Head(ps)) IN
    CASE ev.kind = "ignored" -> CallsFor(Tail(ps))
      [] ev.kind = "quota" -> <<ErrorCall(ev.arg)>>
      [] ev.kind = "token" -> <<TokenCall(ev.arg)>> \o CallsFor(Tail(ps))

\* another method than cancel() is called: the stream stays as it is
CancelStreamLeftOpen(st) == st

\* ReadableStreamDefaultReader.cancel(): a readable stream is closed and its
\* queue dropped; a closed or errored stream is left as it is
CancelStream(st) == IF st = "readable" THEN "cancelled" ELSE st

\* ----------------------------------------------------------- the inputs
Pieces ==
  { <<"d", "a", "t", "a", ":", "h", LF, LF>>,
    <<"d", "a", "t", "a", ":", SP, LeadByte, ContByte, LF, LF>>,
    <<"d", "a", "t", "a", ":", "4", "2", "9", LF, LF>>,
    <<":", "k", LF, LF>>,
    <<LF>>,
    <<"d", "a", "t", "a", ":", "w">> }

RECURSIVE TextsOf(_)
TextsOf(n) ==
  IF n = 0 THEN {<<>>}
  ELSE LET shorter == TextsOf(n - 1) IN
    shorter \cup {t \o p : t \in shorter, p \in Pieces}

Texts == TextsOf(MaxPieces)
Statuses == {200, 404, 500}

\* ------------------------------------------------------------ the state
VARIABLES
  text,        \* the bytes the server sends as the response body
  netOk,       \* whether fetch resolves with a response
  status,      \* res.status
  pc,          \* "fetch", "pending" (a read is awaited), "dispatch", "exited"
  exit,        \* how the session ended
  stream,      \* state of res.body
  pos,         \* number of bytes handed to the read loop so far
  decoderKeep, \* bytes the TextDecoder holds back
  buffer,      \* line 103
  parts,       \* frames of the current chunk not yet visited by the for loop
  calls,       \* the callback invocations, in order
  cutsSeen,    \* where chunk boundaries have fallen so far
  outstanding, \* number of reader.read() calls not yet settled
  cancelCalls, \* number of reader.cancel() calls issued
  handle,      \* the function the caller got back
  handleCalls  \* number of times the caller invoked it

vars == <<text, netOk, status, pc, exit, stream, pos, decoderKeep,
          buffer, parts, calls, cutsSeen, outstanding, cancelCalls, handle,
          handleCalls>>

input == <<text, netOk, status>>
loopVars == <<pos, decoderKeep, buffer, parts>>

Init ==
  /\ text \in Texts
  /\ netOk \in BOOLEAN
  /\ status \in Statuses
  /\ netOk = FALSE => (text = <<>> /\ status = 200)
  /\ pc = "fetch"
  /\ exit = "none"
  /\ stream = "none"
  /\ pos = 0
  /\ decoderKeep = <<>>
  /\ buffer = <<>>
  /\ parts = <<>>
  /\ calls = <<>>
  /\ cutsSeen = {}
  /\ outstanding = 0
  /\ cancelCalls = 0
  /\ handle = "none"
  /\ handleCalls = 0

\* lines 86-93 and 134-137: the request itself fails
FetchRejects ==
  /\ pc = "fetch"
  /\ ~netOk
  /\ calls' = Append(calls, ErrorCall(NetworkMsg))
  /\ handle' = "noop"
  /\ pc' = "exited"
  /\ exit' = "throw"
  /\ UNCHANGED <<input, stream, loopVars, cutsSeen, outstanding, cancelCalls,
                 handleCalls>>

\* the return of line 97 is missing: the loop is started after the error
FetchResolvesNoReturn ==
  /\ pc = "fetch"
  /\ netOk
  /\ stream' = "readable"
  /\ calls' = IF ResOk(status) THEN calls
               ELSE Append(calls, ErrorCall(HttpMsg(status)))
  /\ handle' = "cancel"
  /\ pc' = "pending"
  /\ outstanding' = outstanding + 1
  /\ UNCHANGED <<input, exit, loopVars, cutsSeen, cancelCalls, handleCalls>>

\* line 130 awaits read(): the handle is returned when the loop is over
FetchResolvesAwaited ==
  /\ pc = "fetch"
  /\ netOk
  /\ IF ~ResOk(status)
       THEN /\ calls' = Append(calls, ErrorCall(HttpMsg(status)))
            /\ handle' = "noop"
            /\ exit' = "http"
            /\ stream' = "readable"
            /\ UNCHANGED <<loopVars, cancelCalls>>
       ELSE LET whole == Decode(text)
                cs == CallsFor(FramesOf(whole.out))
                quota == cs # <<>> /\ cs[Len(cs)].cb = "error"
            IN /\ calls' = cs
               /\ handle' = "cancel"
               /\ exit' = IF quota THEN "quota" ELSE "done"
               /\ stream' = IF quota THEN "cancelled" ELSE "closed"
               /\ cancelCalls' = IF quota THEN cancelCalls + 1
                                  ELSE cancelCalls
               /\ pos' = Len(text)
               /\ decoderKeep' = whole.keep
               /\ buffer' = Remainder(whole.out)
               /\ parts' = <<>>
  /\ pc' = "exited"
  /\ UNCHANGED <<input, cutsSeen, outstanding, handleCalls>>

\* the non-success path returns the cancelling function of line 133
FetchResolvesCancelOnError ==
  /\ pc = "fetch"
  /\ netOk
  /\ stream' = "readable"
  /\ handle' = "cancel"
  /\ IF ~ResOk(status)
       THEN /\ calls' = Append(calls, ErrorCall(HttpMsg(status)))
            /\ pc' = "exited"
            /\ exit' = "http"
            /\ outstanding' = outstanding
       ELSE /\ calls' = calls
            /\ pc' = "pending"
            /\ exit' = exit
            /\ outstanding' = outstanding + 1
  /\ UNCHANGED <<input, loopVars, cutsSeen, cancelCalls, handleCalls>>

\* lines 95-133: the response arrives
FetchResolves ==
  /\ pc = "fetch"
  /\ netOk
  /\ stream' = "readable"
  /\ IF ~ResOk(status)
       THEN /\ calls' = Append(calls, ErrorCall(HttpMsg(status)))
            /\ handle' = "noop"
            /\ pc' = "exited"
            /\ exit' = "http"
            /\ outstanding' = outstanding
       ELSE /\ calls' = calls
            /\ handle' = "cancel"
            /\ pc' = "pending"
            /\ exit' = exit
            /\ outstanding' = outstanding + 1
  /\ UNCHANGED <<input, loopVars, cutsSeen, cancelCalls, handleCalls>>

\* what the chunk boundary after byte n falls inside: a multi-byte character
\* (the decoder holds bytes back) or a delimiter (the text so far ends with
\* an unmatched line feed and the next byte is a line feed)
CutKinds(n, keep, joined) ==
  (IF keep # <<>> THEN {"character"} ELSE {})
  \cup (IF /\ n < Len(text)
            /\ joined # <<>>
            /\ text[n + 1] = LF
            /\ joined[Len(joined)] = LF
            /\ Split(joined)[Len(Split(joined))] # <<>>
         THEN {"delimiter"} ELSE {})

\* lines 106-113: the awaited read yields the next k bytes
ReadChunk(k) ==
  /\ pc = "pending"
  /\ stream = "readable"
  /\ pos + k <= Len(text)
  /\ LET d == Decode(decoderKeep \o SubSeq(text, pos + 1, pos + k))
         joined == buffer \o d.out
     IN /\ decoderKeep' = d.keep
        /\ parts' = FramesOf(joined)
        /\ buffer' = Remainder(joined)
        /\ cutsSeen' = cutsSeen \cup CutKinds(pos + k, d.keep, joined)
  /\ pos' = pos + k
  /\ outstanding' = outstanding - 1
  /\ pc' = "dispatch"
  /\ UNCHANGED <<input, exit, stream, calls, cancelCalls, handle,
                 handleCalls>>

\* the return of line 123 is missing: the loop goes on after the sentinel
DispatchPartNoReturn ==
  /\ pc = "dispatch"
  /\ parts # <<>>
  /\ LET ev == Interpret(Head(parts)) IN
       /\ parts' = Tail(parts)
       /\ CASE ev.kind = "ignored" ->
                 UNCHANGED <<calls, stream, cancelCalls>>
            [] ev.kind = "quota" ->
                 /\ calls' = Append(calls, ErrorCall(ev.arg))
                 /\ stream' = CancelStream(stream)
                 /\ cancelCalls' = cancelCalls + 1
            [] ev.kind = "token" ->
                 /\ calls' = Append(calls, TokenCall(ev.arg))
                 /\ UNCHANGED <<stream, cancelCalls>>
  /\ UNCHANGED <<input, pc, exit, pos, decoderKeep, buffer, cutsSeen,
                 outstanding, handle, handleCalls>>

\* lines 115-126: one iteration of the for loop
DispatchPart ==
  /\ pc = "dispatch"
  /\ parts # <<>>
  /\ LET ev == Interpret(Head(parts)) IN
       /\ parts' = Tail(parts)
       /\ CASE ev.kind = "ignored" ->
                 UNCHANGED <<calls, stream, cancelCalls, pc, exit>>
            [] ev.kind = "quota" ->
                 /\ calls' = Append(calls, ErrorCall(ev.arg))
                 /\ stream' = CancelStream(stream)
                 /\ cancelCalls' = cancelCalls + 1
                 /\ pc' = "exited"
                 /\ exit' = "quota"
            [] ev.kind = "token" ->
                 /\ calls' = Append(calls, TokenCall(ev.arg))
                 /\ UNCHANGED <<stream, cancelCalls, pc, exit>>
  /\ UNCHANGED <<input, pos, decoderKeep, buffer, cutsSeen, outstanding,
                 handle, handleCalls>>

\* the next read is issued before the for loop has visited every frame
NextReadEarly ==
  /\ pc = "dispatch"
  /\ outstanding' = outstanding + 1
  /\ pc' = "pending"
  /\ UNCHANGED <<input, exit, stream, loopVars, calls, cutsSeen, cancelCalls,
                 handle, handleCalls>>

\* line 127 is missing: the loop returns after the first chunk
NextReadStops ==
  /\ pc = "dispatch"
  /\ parts = <<>>
  /\ pc' = "exited"
  /\ exit' = "done"
  /\ UNCHANGED <<input, stream, loopVars, calls, cutsSeen, outstanding,
                 cancelCalls, handle, handleCalls>>

\* line 127 then line 106: the next read is issued
NextRead ==
  /\ pc = "dispatch"
  /\ parts = <<>>
  /\ outstanding' = outstanding + 1
  /\ pc' = "pending"
  /\ UNCHANGED <<input, exit, stream, loopVars, calls, cutsSeen, cancelCalls,
                 handle, handleCalls>>

\* the buffered remainder is interpreted as a last frame when the body ends
ReadDoneFlush ==
  /\ pc = "pending"
  /\ stream \in {"closed", "cancelled"}
  /\ outstanding' = outstanding - 1
  /\ pc' = "exited"
  /\ exit' = "done"
  /\ calls' = calls \o CallsFor(<<buffer>>)
  /\ UNCHANGED <<input, stream, loopVars, cutsSeen, cancelCalls, handle,
                 handleCalls>>

\* the end of the body is reported through the error callback
ReadDoneReported ==
  /\ pc = "pending"
  /\ stream \in {"closed", "cancelled"}
  /\ outstanding' = outstanding - 1
  /\ pc' = "exited"
  /\ exit' = "done"
  /\ calls' = Append(calls, ErrorCall(<<"stream closed">>))
  /\ UNCHANGED <<input, stream, loopVars, cutsSeen, cancelCalls, handle,
                 handleCalls>>

\* line 107: the awaited read reports done
ReadDone ==
  /\ pc = "pending"
  /\ stream \in {"closed", "cancelled"}
  /\ outstanding' = outstanding - 1
  /\ pc' = "exited"
  /\ exit' = "done"
  /\ UNCHANGED <<input, stream, loopVars, calls, cutsSeen, cancelCalls,
                 handle, handleCalls>>

\* line 106: the awaited read rejects; read() was called without await on
\* line 130, so the rejection leaves streamDraft's try block unobserved
ReadRejects ==
  /\ pc = "pending"
  /\ stream = "errored"
  /\ outstanding' = outstanding - 1
  /\ pc' = "exited"
  /\ exit' = "rejected"
  /\ UNCHANGED <<input, stream, loopVars, calls, cutsSeen, cancelCalls,
                 handle, handleCalls>>

\* the server closes the body once every byte has been handed over; a body
\* that never ends is one for which this never happens
BodyEnds ==
  /\ stream = "readable"
  /\ pos = Len(text)
  /\ stream' = "closed"
  /\ UNCHANGED <<input, pc, exit, loopVars, calls, cutsSeen, outstanding,
                 cancelCalls, handle, handleCalls>>

\* the transport fails under the read that is awaited
TransportError ==
  /\ stream = "readable"
  /\ pc = "pending"
  /\ stream' = "errored"
  /\ UNCHANGED <<input, pc, exit, loopVars, calls, cutsSeen, outstanding,
                 cancelCalls, handle, handleCalls>>

\* the function returned on line 133 does nothing
CancelNoop ==
  /\ handle # "none"
  /\ handleCalls < MaxHandleCalls
  /\ handleCalls' = handleCalls + 1
  /\ UNCHANGED <<input, pc, exit, stream, loopVars, calls, cutsSeen,
                 outstanding, cancelCalls, handle>>

\* the function returned on line 133 also reports the cancellation
CancelReported ==
  /\ handle # "none"
  /\ handleCalls < MaxHandleCalls
  /\ handleCalls' = handleCalls + 1
  /\ IF handle = "cancel"
       THEN /\ stream' = CancelStream(stream)
            /\ cancelCalls' = cancelCalls + 1
            /\ calls' = Append(calls, ErrorCall(<<"cancelled">>))
       ELSE UNCHANGED <<stream, cancelCalls, calls>>
  /\ UNCHANGED <<input, pc, exit, loopVars, cutsSeen, outstanding, handle>>

\* lines 97, 133, 136: the caller invokes the function it got back
Cancel ==
  /\ handle # "none"
  /\ handleCalls < MaxHandleCalls
  /\ handleCalls' = handleCalls + 1
  /\ IF handle = "cancel"
       THEN /\ stream' = CancelStream(stream)
            /\ cancelCalls' = cancelCalls + 1
       ELSE UNCHANGED <<stream, cancelCalls>>
  /\ UNCHANGED <<input, pc, exit, loopVars, calls, cutsSeen, outstanding,
                 handle>>

Next ==
  \/ FetchRejects
  \/ FetchResolves
  \/ \E k \in 1..Len(text) : ReadChunk(k)
  \/ DispatchPart
  \/ NextRead
  \/ ReadDone
  \/ ReadRejects
  \/ BodyEnds
  \/ TransportError
  \/ Cancel

Spec == Init /\ [][Next]_vars

\* the event loop runs every continuation that is ready
FairSpec ==
  Spec /\ WF_vars(DispatchPart \/ NextRead \/ ReadDone \/ ReadRejects)

\* the server moreover answers, delivers every chunk and closes the body
LiveSpec ==
  /\ FairSpec
  /\ WF_vars(FetchResolves)
  /\ WF_vars(\E k \in 1..Len(text) : ReadChunk(k))
  /\ WF_vars(BodyEnds)

\* the session states of the state machine
SessionState ==
  CASE pc = "fetch" -> "Idle"
    [] pc \in {"pending", "dispatch"} -> "Reading"
    [] pc = "exited" /\ exit = "done" /\ stream = "cancelled" -> "Cancelled"
    [] pc = "exited" /\ exit = "done" /\ stream # "cancelled" -> "Completed"
    [] OTHER -> "Failed"

Terminal == SessionState \in {"Completed", "Cancelled", "Failed"}

TypeOK ==
  /\ pc \in {"fetch", "pending", "dispatch", "exited"}
  /\ exit \in {"none", "done", "quota", "rejected", "http", "throw"}
  /\ stream \in {"none", "readable", "closed", "cancelled", "errored"}
  /\ pos \in 0..Len(text)
  /\ handle \in {"none", "noop", "cancel"}
  /\ handleCalls \in 0..MaxHandleCalls

\* ------------------------------------------------- reference definitions
Range(s) == {s[i] : i \in DOMAIN s}
Last(s) == s[Len(s)]
IsPrefix(s, t) == Len(s) <= Len(t) /\ SubSeq(t, 1, Len(s)) = s

IsToken(c) == c.cb = "token"
IsError(c) == c.cb = "error"
TokenArgs(cs) == [i \in DOMAIN SelectSeq(cs, IsToken) |-> SelectSeq(cs, IsToken)[i].arg]
ErrorArgs(cs) == [i \in DOMAIN SelectSeq(cs, IsError) |-> SelectSeq(cs, IsError)[i].arg]

\* the characters of the whole body
WholeText == Decode(text).out

\* the delimiter-terminated frames of s, found by one scan over s that
\* collects characters until a delimiter is met; an unterminated tail is
\* not a frame
RECURSIVE ScanFrames(_, _, _)
ScanFrames(s, i, cur) ==
  IF i > Len(s) THEN <<>>
  ELSE IF i < Len(s) /\ s[i] = LF /\ s[i + 1] = LF
    THEN <<cur>> \o ScanFrames(s, i + 2, <<>>)
    ELSE ScanFrames(s, i + 1, Append(cur, s[i]))

StreamFrames == ScanFrames(WholeText, 1, <<>>)

IsDataFrame(f) == StartsWith(Trim(f), DataPrefix)
FramePayload(f) == Trim(SubSeq(Trim(f), 6, Len(Trim(f))))
IsSentinelFrame(f) == IsDataFrame(f) /\ StartsWith(FramePayload(f), QuotaMarker)

\* the payloads of the data frames before the first sentinel frame
RECURSIVE PayloadsUntilSentinel(_)
PayloadsUntilSentinel(fs) ==
  IF fs = <<>> THEN <<>>
  ELSE IF IsSentinelFrame(Head(fs)) THEN <<>>
  ELSE IF IsDataFrame(Head(fs))
    THEN <<FramePayload(Head(fs))>> \o PayloadsUntilSentinel(Tail(fs))
    ELSE PayloadsUntilSentinel(Tail(fs))

\* the calls made when the whole body arrives as one chunk
OneChunkCalls == CallsFor(FramesOf(WholeText))

\* success status, no cancellation, no read failure
CleanRun ==
  netOk /\ ResOk(status) /\ handleCalls = 0 /\ stream # "errored"

\* every byte of the body has been interpreted, or the loop has returned
BodyConsumed ==
  pc = "exited" \/ (pc = "pending" /\ pos = Len(text))

\* ---------------------------------------------------------------- claims

\* C1: with a success status, no cancellation and no read failure, however
\* the body is cut into chunks, the token and error callbacks receive the
\* same sequence of calls as when the whole body arrives in one chunk.
C1_FragmentationInvariant ==
  (CleanRun /\ BodyConsumed) => calls = OneChunkCalls

\* a body of two frames arrived in chunks cut inside a delimiter and inside
\* a two-byte character, and both tokens were dispatched
C1_Witness ==
  /\ CleanRun /\ pc = "exited" /\ exit = "done"
  /\ cutsSeen = {"character", "delimiter"}
  /\ Len(TokenArgs(calls)) = 2
  /\ EAcute \in Range(WholeText)

\* C2: with a success status, no cancellation and no read failure, the token
\* payloads are, in stream order, the trimmed payloads of the data frames
\* before the first sentinel frame: one token call per frame.
C2_TokensInStreamOrder ==
  CleanRun =>
    /\ IsPrefix(TokenArgs(calls), PayloadsUntilSentinel(StreamFrames))
    /\ BodyConsumed => TokenArgs(calls) = PayloadsUntilSentinel(StreamFrames)

C2_Witness ==
  /\ CleanRun /\ pc = "exited"
  /\ TokenArgs(calls) = <<<<"h">>, <<EAcute>>>>

\* C3: when a complete frame's payload starts with "429" the error callback
\* is invoked once with the quota message, reader.cancel() is called and the
\* loop returns; afterwards no callback is invoked, no frame is visited and
\* no read is issued.
QuotaSeen == ErrorCall(QuotaMsg) \in Range(calls)

C3_QuotaStops ==
  [][ /\ ( /\ pc = "dispatch" /\ parts # <<>>
           /\ IsSentinelFrame(Head(parts))
           /\ parts' = Tail(parts) )
         => /\ calls' = Append(calls, ErrorCall(QuotaMsg))
            /\ cancelCalls' = cancelCalls + 1
            /\ stream' # "readable"
            /\ pc' = "exited"
      /\ QuotaSeen
         => /\ calls' = calls
            /\ parts' = parts
            /\ pos' = pos
            /\ pc' = "exited" ]_vars

\* the sentinel was met with a later frame already split off the same chunk
C3_Witness ==
  /\ QuotaSeen /\ pc = "exited"
  /\ parts # <<>>
  /\ Len(ErrorArgs(calls)) = 1

\* C4: a failed chunk read invokes the error callback exactly once with the
\* transport error's message.
C4_ReadFailureReported ==
  (pc = "exited" /\ exit = "rejected") =>
    /\ ErrorArgs(calls) = <<TransportMsg>>
    /\ Last(calls) = ErrorCall(TransportMsg)

\* C5: on a non-success status the error callback is invoked exactly once
\* with "HTTP <status>", the token callback never, and no read is issued.
C5_NonSuccessShortCircuit ==
  (netOk /\ (status < 200 \/ status > 299) /\ pc # "fetch") =>
    /\ calls = <<ErrorCall(<<"HTTP ", ToString(status)>>)>>
    /\ status = 500 => calls = <<ErrorCall(<<"HTTP ", "500">>)>>
    /\ pc = "exited"
    /\ cancelCalls = 0
    /\ pos = 0

C5_Witness ==
  /\ netOk /\ status = 500 /\ pc = "exited"
  /\ Len(calls) = 1
  /\ text # <<>>

\* C6: no session reaches a terminal state with the response body still
\* open: it is closed, cancelled or errored on every exit path.
C6_BodyReleased ==
  (Terminal /\ netOk) => stream \in {"closed", "cancelled", "errored"}

\* C7: with a success status, no transport failure and no sentinel frame the
\* error callback is never invoked, whenever and however often the cancel
\* handle is invoked.
NoSentinel == \A i \in DOMAIN StreamFrames : ~IsSentinelFrame(StreamFrames[i])

C7_CancelSilent ==
  (netOk /\ ResOk(status) /\ stream # "errored" /\ NoSentinel) =>
    ErrorArgs(calls) = <<>>

C7_Witness ==
  /\ netOk /\ ResOk(status) /\ NoSentinel
  /\ handleCalls >= 2
  /\ SessionState = "Cancelled"
  /\ pos < Len(text)
  /\ ErrorArgs(calls) = <<>>

\* C8: once the cancel handle has been invoked on a reading session no
\* further byte is taken from the body, and the session reaches a terminal
\* state even when the body never ends.
C8_CancelStopsReads ==
  /\ [][(handle = "cancel" /\ handleCalls > 0) => pos' = pos]_vars
  /\ (handleCalls > 0 /\ SessionState = "Reading") ~> Terminal

\* the whole body had arrived and was still open when the handle was invoked
C8_Witness ==
  /\ handleCalls > 0
  /\ SessionState = "Cancelled"
  /\ pos = Len(text)
  /\ TokenArgs(calls) # <<>>

\* C9: a second invocation of the cancel handle, and any invocation after
\* the loop has finished, changes neither the session nor the callback
\* history.
C9_CancelIdempotent ==
  [][ ( /\ handleCalls' = handleCalls + 1
        /\ handleCalls >= 1 \/ SessionState \in {"Completed", "Failed"} )
      => UNCHANGED <<pc, exit, stream, pos, decoderKeep, buffer, parts,
                     calls, handle>> ]_vars

C9_Witness ==
  /\ handleCalls >= 2
  /\ handle = "cancel"
  /\ SessionState = "Completed"
  /\ calls # <<>>

\* C10: a complete frame whose trimmed text does not start with "data:"
\* causes no callback and does not stop the loop.
C10_IgnoredFrameSkipped ==
  [][ ( /\ pc = "dispatch" /\ parts # <<>>
        /\ ~StartsWith(Trim(Head(parts)), DataPrefix)
        /\ parts' = Tail(parts) )
      => /\ calls' = calls
         /\ pc' = "dispatch"
         /\ exit' = exit
         /\ stream' = stream ]_vars

\* a frame without the prefix came first and a later frame gave a token
C10_Witness ==
  /\ StreamFrames # <<>>
  /\ ~IsDataFrame(Head(StreamFrames))
  /\ TokenArgs(calls) # <<>>
  /\ pc = "exited"

\* the characters decoded from the bytes received so far
ReceivedText == Decode(SubSeq(text, 1, pos)).out

\* what one scan over s has collected since the last delimiter it met
RECURSIVE ScanRest(_, _, _)
ScanRest(s, i, cur) ==
  IF i > Len(s) THEN cur
  ELSE IF i < Len(s) /\ s[i] = LF /\ s[i + 1] = LF
    THEN ScanRest(s, i + 2, <<>>)
    ELSE ScanRest(s, i + 1, Append(cur, s[i]))

ReceivedFrames == ScanFrames(ReceivedText, 1, <<>>)

\* C11: the error callback is invoked at most once, and once the session is
\* Completed, Cancelled or Failed its state is final: no read is issued, no
\* byte is taken from the body and no callback is invoked.
C11_TerminalFinal ==
  /\ [](Len(ErrorArgs(calls)) <= 1)
  /\ [][ Terminal
         => /\ calls' = calls
            /\ pc' = pc
            /\ pos' = pos
            /\ outstanding' = outstanding
            /\ SessionState' = SessionState ]_vars

\* the loop returned on a sentinel with bytes of the body still unread, and
\* the handle was invoked
C11_Witness ==
  /\ pc = "exited" /\ exit = "quota"
  /\ handleCalls >= 1
  /\ pos < Len(text)
  /\ Len(ErrorArgs(calls)) = 1

\* C12: the step that hands the cancelling function to the caller leaves the
\* session Reading with its first read outstanding: the loop has been
\* started and has not been waited for.
C12_HandleBeforeLoopEnds ==
  [][ (handle = "none" /\ handle' = "cancel")
      => /\ pc' = "pending"
         /\ outstanding' = 1
         /\ SessionState' = "Reading"
         /\ calls' = calls
         /\ pos' = 0 ]_vars

\* the caller holds the handle while the first read of a non-empty body is
\* still pending
C12_Witness ==
  /\ handle = "cancel" /\ handleCalls = 0
  /\ SessionState = "Reading" /\ pc = "pending"
  /\ stream = "readable"
  /\ pos = 0 /\ text # <<>>

\* C13: while a read is pending the buffer is the received text that follows
\* the last delimiter met (all of it if none was met) and holds no delimiter.
C13_BufferIsUnresolvedSuffix ==
  pc = "pending" =>
    /\ buffer = ScanRest(ReceivedText, 1, <<>>)
    /\ \A i \in 1..(Len(buffer) - 1) : ~(buffer[i] = LF /\ buffer[i + 1] = LF)

\* a frame was dispatched and a lone line feed is buffered
C13_Witness ==
  /\ pc = "pending"
  /\ buffer # <<>> /\ buffer[Len(buffer)] = LF
  /\ TokenArgs(calls) # <<>>

\* C14: callbacks are invoked only for delimiter-terminated frames of the
\* text received so far, and the return at the end of the body invokes none:
\* a buffered remainder is dropped.
C14_UnterminatedNeverInterpreted ==
  /\ [](/\ IsPrefix(TokenArgs(calls), PayloadsUntilSentinel(ReceivedFrames))
        /\ QuotaSeen => \E i \in DOMAIN ReceivedFrames :
                          IsSentinelFrame(ReceivedFrames[i]))
  /\ [][(pc = "pending" /\ pc' = "exited") => calls' = calls]_vars

\* the body ended after a frame and an unterminated data line
C14_Witness ==
  /\ pc = "exited" /\ exit = "done" /\ stream = "closed"
  /\ IsDataFrame(buffer)
  /\ Len(calls) = 1 /\ TokenArgs(calls) # <<>>

\* C15: at most one read is outstanding, none while frames are dispatched,
\* and a read is issued only when every frame of the chunk has been visited.
C15_ReadsSerialized ==
  /\ [](/\ outstanding \in {0, 1}
        /\ outstanding = 1 => (pc = "pending" /\ parts = <<>>)
        /\ pc = "dispatch" => outstanding = 0)
  /\ [][outstanding' > outstanding => (outstanding = 0 /\ parts = <<>>)]_vars

\* a read is pending after two callbacks have been invoked
C15_Witness ==
  /\ pc = "pending" /\ outstanding = 1
  /\ Len(calls) >= 2
  /\ pos = Len(text)

\* C16: with a success status and no sentinel frame, a body that delivers
\* its chunks and ends brings the session to Completed with no error call,
\* unless the handle is invoked or the transport fails.
C16_FiniteBodyCompletes ==
  (pc = "fetch" /\ netOk /\ ResOk(status) /\ NoSentinel)
    ~> \/ /\ SessionState = "Completed"
          /\ pos = Len(text)
          /\ stream = "closed"
          /\ ErrorArgs(calls) = <<>>
       \/ handleCalls > 0
       \/ stream = "errored"

C16_Witness ==
  /\ SessionState = "Completed" /\ stream = "closed"
  /\ handleCalls = 0
  /\ pos = Len(text)
  /\ Len(TokenArgs(calls)) = 2
  /\ ErrorArgs(calls) = <<>>

\* C17: once the handle has been invoked and a read is pending (or the loop
\* has returned), no byte is taken from the body and the token callback is
\* not invoked again.
HandleInvokedReadPending ==
  handle = "cancel" /\ handleCalls > 0 /\ pc \in {"pending", "exited"}

C17_NoTokenAfterCancel ==
  [][ HandleInvokedReadPending
      => /\ TokenArgs(calls') = TokenArgs(calls)
         /\ pos' = pos
         /\ HandleInvokedReadPending' ]_vars

\* the handle was invoked under the first read of a body that holds a token
\* frame, and no token was dispatched
C17_Witness ==
  /\ handleCalls > 0
  /\ SessionState = "Cancelled"
  /\ pos = 0 /\ calls = <<>>
  /\ PayloadsUntilSentinel(StreamFrames) # <<>>

\* C18: when the request fails or returns a non-success status the error
\* callback has been invoked exactly once, the function returned does
\* nothing, and invoking it changes no part of the session.
InitiationFailed ==
  pc # "fetch" /\ (~netOk \/ status < 200 \/ status > 299)

C18_NoopHandle ==
  /\ [](InitiationFailed
        => /\ handle = "noop"
           /\ Len(calls) = 1
           /\ Len(ErrorArgs(calls)) = 1
           /\ pc = "exited"
           /\ outstanding = 0
           /\ cancelCalls = 0
           /\ pos = 0)
  /\ [][ (InitiationFailed /\ handleCalls' = handleCalls + 1)
         => UNCHANGED <<pc, exit, stream, loopVars, calls, outstanding,
                        cancelCalls, handle>> ]_vars

\* the request itself failed and the handle was invoked twice
C18_Witness ==
  /\ ~netOk
  /\ handleCalls >= 2
  /\ calls = <<ErrorCall(NetworkMsg)>>
====
